---- MODULE Spec2Model ----
(***************************************************************************)
(* Model of Containerd::get_events_from_journalctl (src/src/containerd.rs):*)
(* the single forward scan over containerd's journal that correlates log   *)
(* lines into the RunPodSandbox / PullImage / CreateContainer /            *)
(* StartContainer intervals of one Knative deployment.                     *)
(*                                                                         *)
(* A log line is modelled by what the scan can observe of it: its          *)
(* timestamp and, for the message, the outcome of every substring test     *)
(* (str::contains) and regex capture the code performs on it.              *)
(***************************************************************************)
EXTENDS Integers, Sequences, FiniteSets, TLC

VARIABLES
    st,           \* the locals of the scan: pending starts, ids, ts_map
    cutoff_time,  \* parameter cutoff_time
    pc,           \* "scan" while the for loop runs, "done" after the return
    warned,       \* whether the warn! of line 268 was emitted
    returned,     \* the map handed back to the caller (line 273)
    n,            \* number of lines read from the journal so far
    line,         \* history: the line read last: its timestamp, its call, the
                  \* events it belongs to and how it stood to the locals it met
    flt,          \* history: the locals of a scan of the same journal with
                  \* the lines before the cutoff removed
    hw,           \* history: the timestamp of the last line at or after the
                  \* cutoff, and whether these came in non-decreasing order
    sent,         \* log source: how many lines of each call sequence were logged
    log,          \* history: the lines read so far, in order
    solo,         \* history: per role, the locals of a scan of the same journal
                  \* without the other role's lines
    relogged,     \* log source: a line of the journal was logged a second time
    delivered,    \* log source: the line delivered last (it may come again)
    orig,         \* history: the locals of a scan of the journal delivered
                  \* exactly once
    raised,       \* history: the locals of a scan of the same journal with
                  \* the later cutoff cutoff_time + 1, and those of a scan
                  \* of the journal without the lines before that cutoff
    run,          \* the repetition driver around the scan: its position, the
                  \* repetition index, the result rows written, and what
                  \* became of the journalctl process of the repetition
    quiet,        \* history: the locals of a scan of the same journal without
                  \* the lines of other operations than the four calls
    journal       \* log source: the finite output of journalctl, when it is
                  \* fixed before the scan begins

vars == <<st, cutoff_time, pc, warned, returned, n, line, flt,
          hw, sent, log, solo, relogged, delivered, orig, raised, run,
          quiet, journal>>

----------------------------------------------------------------------------
(* Bounds of the model *)

\* Only the order of a timestamp relative to the cutoff and to the other
\* timestamps is ever read: timestamps range over 0..MaxTs, the cutoff is
\* CutoffTs, so 0..CutoffTs-1 are the stale timestamps of earlier runs.
MaxTs == 2
CutoffTs == 1
\* a journal holds at most MaxLen lines
MaxLen == 4
\* a journal delivered at least once holds at most MaxDupLen distinct lines
MaxDupLen == 2
\* a journal of raw lines holds at most MaxRawLen lines
MaxRawLen == 4
\* a journal scanned with two cutoffs holds at most MaxCutoffLen lines
MaxCutoffLen == 5
\* each container of a deployment is created at most MaxCycles times
MaxCycles == 2
\* the driver runs at most MaxRepeats repetitions (args.num_repeats)
MaxRepeats == 2
\* a journal holds at most MaxNoise lines of other operations
MaxNoise == 1
\* the output of journalctl, when fixed beforehand, holds at most
\* MaxStreamLen lines
MaxStreamLen == 4

----------------------------------------------------------------------------
(* Values *)

\* Option::None of the Option<DateTime<Utc>> locals
None == -1

Timestamps == 0 .. MaxTs

\* sandbox ids and container ids that lines of the journal mention
SandboxIds == {"5b1", "5b2"}
ContainerIds == {"c01", "c02"}

\* the empty String the id locals start with
EmptyId == ""

\* "no capture" outcome of Regex::captures
NoMatch == ""

num_expected_events == 6

\* the events of the scan: CONTAINERD_INFO_EVENTS without "StartUp", the fake
\* event the driver adds for the end-to-end time
CONTAINERD_INFO_EVENTS ==
    { "RunPodSandbox", "PullImage",
      "CreateContainerUserContainer", "CreateContainerQueueProxy",
      "StartContainerUserContainer", "StartContainerQueueProxy" }

----------------------------------------------------------------------------
(* Messages *)

\* A message: text is the set of literal needles of the code it contains,
\* dep whether it contains deployment_id, ids the sandbox/container ids it
\* contains, sbx_cap / ctr_cap what the two regexes capture from it.
Msg(text, dep, ids, sbx_cap, ctr_cap) ==
    [text |-> text, dep |-> dep, ids |-> ids, sbx_cap |-> sbx_cap, ctr_cap |-> ctr_cap]

\* message.contains("<literal>")
Contains(m, needle) == needle \in m.text

\* message.contains(deployment_id)
ContainsDeployment(m) == m.dep

ContainsId_any(m, id) == TRUE

\* message.contains(&id) for an id local: str::contains of the empty
\* pattern is true for every message
ContainsId(m, id) == id = EmptyId \/ id \in m.ids

sandbox_id_regex_any(m) == IF m.sbx_cap = NoMatch THEN "5b1" ELSE m.sbx_cap

\* sandbox_id_regex.captures(message): the captured sbx_id, or NoMatch
sandbox_id_regex(m) == m.sbx_cap

\* container_id_regex.captures(message): the captured ctr_id, or NoMatch
container_id_regex(m) == m.ctr_cap

\* RunPodSandbox lines: the request, and the line reporting the result; the
\* latter carries "returns sandbox id" and, when well formed, the quoted id
RunPodSandboxMsgs ==
    { Msg({"RunPodSandbox"}, d, {}, NoMatch, NoMatch) : d \in BOOLEAN }
    \cup { Msg({"RunPodSandbox", "returns sandbox id"}, d, {}, NoMatch, NoMatch) : d \in BOOLEAN }
    \cup { Msg({"RunPodSandbox", "returns sandbox id"}, d[1], {d[2]}, d[2], NoMatch) :
             d \in BOOLEAN \X SandboxIds }

PullImageMsgs ==
    { Msg({"PullImage"}, FALSE, {}, NoMatch, NoMatch),
      Msg({"PullImage", "returns image reference"}, FALSE, {}, NoMatch, NoMatch) }

RoleTexts == { {}, {"user-container"}, {"queue-proxy"}, {"user-container", "queue-proxy"} }

\* CreateContainer lines name a sandbox and a container; the result line
\* carries "returns container id" and, when well formed, the quoted id
CreateContainerMsgs ==
    { Msg({"CreateContainer"} \cup d[2], FALSE, d[1], NoMatch, NoMatch) :
         d \in {{"5b1"}, {"5b2"}} \X RoleTexts }
    \cup { Msg({"CreateContainer", "returns container id"} \cup d[2], FALSE, d[1], NoMatch, NoMatch) :
         d \in {{"5b1"}, {"5b2"}} \X RoleTexts }
    \cup { Msg({"CreateContainer", "returns container id"} \cup d[2], FALSE, d[1] \cup {d[3]}, NoMatch, d[3]) :
         d \in {{"5b1"}, {"5b2"}} \X RoleTexts \X ContainerIds }

StartContainerMsgs ==
    { Msg({"StartContainer"}, FALSE, i, NoMatch, NoMatch) : i \in SUBSET ContainerIds }
    \cup { Msg({"StartContainer", "returns successfully"}, FALSE, i, NoMatch, NoMatch) :
             i \in SUBSET ContainerIds }

\* a line of some other containerd operation
OtherMsgs == { Msg({}, FALSE, {}, NoMatch, NoMatch) }

Messages ==
    RunPodSandboxMsgs \cup PullImageMsgs \cup CreateContainerMsgs
        \cup StartContainerMsgs \cup OtherMsgs

\* one parsed journal line: __REALTIME_TIMESTAMP and MESSAGE
Entry(ts, m) == [timestamp |-> ts, message |-> m]

Entries == { Entry(d[1], d[2]) : d \in Timestamps \X Messages }

NoLine == [timestamp |-> None, message |-> Msg({}, FALSE, {}, NoMatch, NoMatch)]

----------------------------------------------------------------------------
(* The state of one scan *)

EmptyMap == [k \in {} |-> <<0, 0>>]

Insert_StartUp(map, key, value) ==
    [k \in DOMAIN map \cup {key, "StartUp"} |-> IF k = key THEN value ELSE <<0, 0>>]

\* BTreeMap::insert
Insert(map, key, value) ==
    [k \in DOMAIN map \cup {key} |-> IF k = key THEN value ELSE map[k]]

\* the locals of lines 83-96
InitState ==
    [ ts_map                   |-> EmptyMap,
      run_sandbox_start        |-> None,
      pull_image_start         |-> None,
      user_container_start     |-> None,
      queue_proxy_start        |-> None,
      user_container_create    |-> None,
      queue_proxy_create       |-> None,
      sbx_id                   |-> EmptyId,
      user_container_id        |-> EmptyId,
      queue_proxy_container_id |-> EmptyId,
      panicked                 |-> FALSE ]

\* result of one block of the loop body: the locals after it, and whether
\* it ended in `continue`
Continue(s) == [s |-> s, continue |-> TRUE]
FallThrough(s) == [s |-> s, continue |-> FALSE]

\* the (start, end) pair put into ts_map
Interval_swapped(start, end) == <<end, start>>

Interval(start, end) == <<start, end>>

\* Option::unwrap of a pending start: panics on None
Unwrap(s, field) == IF s[field] = None THEN [s EXCEPT !.panicked = TRUE] ELSE s

----------------------------------------------------------------------------
(* The loop body, block by block *)

BeforeCutoff_inclusive(timestamp, cutoff) == timestamp <= cutoff

BeforeCutoff_never(timestamp, cutoff) == FALSE

\* line 118
BeforeCutoff(timestamp, cutoff) == timestamp < cutoff

IsSandboxStart_anyDeployment(s, m) ==
    s.run_sandbox_start = None /\ Contains(m, "RunPodSandbox")

\* line 124-127
IsSandboxStart(s, m) ==
    /\ s.run_sandbox_start = None
    /\ Contains(m, "RunPodSandbox")
    /\ ContainsDeployment(m)

SandboxEnd_first(s, timestamp) ==
    IF s.run_sandbox_start # None /\ "RunPodSandbox" \notin DOMAIN s.ts_map
    THEN Insert(s.ts_map, "RunPodSandbox", Interval(s.run_sandbox_start, timestamp))
    ELSE s.ts_map

\* lines 136-138: the map after a sandbox result line
SandboxEnd(s, timestamp) ==
    IF s.run_sandbox_start # None
    THEN Insert(s.ts_map, "RunPodSandbox", Interval(s.run_sandbox_start, timestamp))
    ELSE s.ts_map

RunPodSandboxBlock_falls(s, timestamp, m) ==
    LET s1 == IF IsSandboxStart(s, m)
              THEN [s EXCEPT !.run_sandbox_start = timestamp]
              ELSE s
    IN  IF /\ Contains(m, "RunPodSandbox")
           /\ Contains(m, "returns sandbox id")
           /\ sandbox_id_regex(m) # NoMatch
        THEN Continue([s1 EXCEPT !.sbx_id = sandbox_id_regex(m),
                                 !.ts_map = SandboxEnd(s1, timestamp)])
        ELSE FallThrough(s1)

\* lines 124-141
RunPodSandboxBlock(s, timestamp, m) ==
    IF IsSandboxStart(s, m)
    THEN Continue([s EXCEPT !.run_sandbox_start = timestamp])
    ELSE IF /\ Contains(m, "RunPodSandbox")
            /\ Contains(m, "returns sandbox id")
            /\ sandbox_id_regex(m) # NoMatch
         THEN Continue([s EXCEPT !.sbx_id = sandbox_id_regex(m),
                                 !.ts_map = SandboxEnd(s, timestamp)])
         ELSE FallThrough(s)

IsPullStart_any(s, m) == Contains(m, "PullImage")

\* lines 145-146
IsPullStart(s, m) == s.pull_image_start = None /\ Contains(m, "PullImage")

PullImageBlock_late(s, timestamp, m) ==
    IF IsPullStart(s, m)
    THEN Continue([s EXCEPT !.pull_image_start = timestamp + 1])
    ELSE IF /\ Contains(m, "PullImage")
            /\ Contains(m, "returns image reference")
            /\ s.pull_image_start # None
         THEN Continue([s EXCEPT !.ts_map =
                  Insert(s.ts_map, "PullImage", Interval(s.pull_image_start, timestamp))])
         ELSE FallThrough(s)

PullImageBlock_clears(s, timestamp, m) ==
    IF IsPullStart(s, m)
    THEN Continue([s EXCEPT !.pull_image_start = timestamp])
    ELSE IF /\ Contains(m, "PullImage")
            /\ Contains(m, "returns image reference")
            /\ s.pull_image_start # None
         THEN Continue([s EXCEPT
                  !.ts_map = Insert(s.ts_map, "PullImage", Interval(s.pull_image_start, timestamp)),
                  !.pull_image_start = None])
         ELSE FallThrough(s)

\* lines 145-157
PullImageBlock(s, timestamp, m) ==
    IF IsPullStart(s, m)
    THEN Continue([s EXCEPT !.pull_image_start = timestamp])
    ELSE IF /\ Contains(m, "PullImage")
            /\ Contains(m, "returns image reference")
            /\ s.pull_image_start # None
         THEN Continue([s EXCEPT !.ts_map =
                  Insert(s.ts_map, "PullImage", Interval(s.pull_image_start, timestamp))])
         ELSE FallThrough(s)

CreateContainerRole_noid(s, timestamp, m, start, id, event) ==
    IF s[start] = None
    THEN Continue([s EXCEPT ![start] = timestamp])
    ELSE IF Contains(m, "returns container id") /\ container_id_regex(m) # NoMatch
         THEN FallThrough([Unwrap(s, start) EXCEPT
                  !.ts_map = Insert(s.ts_map, event, Interval(s[start], timestamp)),
                  ![start] = None])
         ELSE FallThrough(s)

CreateContainerRole_keeps(s, timestamp, m, start, id, event) ==
    IF s[start] = None
    THEN Continue([s EXCEPT ![start] = timestamp])
    ELSE IF Contains(m, "returns container id") /\ container_id_regex(m) # NoMatch
         THEN FallThrough([s EXCEPT
                  ![id] = container_id_regex(m),
                  !.ts_map = Insert(s.ts_map, event, Interval(s[start], timestamp))])
         ELSE FallThrough(s)

\* lines 169-189 (user-container) and 192-212 (queue-proxy): one role's
\* branch of the CreateContainer block, over that role's locals
CreateContainerRole(s, timestamp, m, start, id, event) ==
    IF s[start] = None
    THEN Continue([s EXCEPT ![start] = timestamp])
    ELSE IF Contains(m, "returns container id") /\ container_id_regex(m) # NoMatch
         THEN FallThrough([Unwrap(s, start) EXCEPT
                  ![id] = container_id_regex(m),
                  !.ts_map = Insert(s.ts_map, event, Interval(s[start], timestamp)),
                  ![start] = None])
         ELSE FallThrough(s)

SandboxKnown_negated(s) == s.sbx_id = EmptyId

\* line 161: !sbx_id.is_empty()
SandboxKnown(s) == s.sbx_id # EmptyId

\* lines 161-214
CreateContainerBlock(s, timestamp, m) ==
    IF /\ SandboxKnown(s)
       /\ Contains(m, "CreateContainer")
       /\ ContainsId(m, s.sbx_id)
    THEN IF Contains(m, "user-container")
         THEN CreateContainerRole(s, timestamp, m, "user_container_start",
                                  "user_container_id", "CreateContainerUserContainer")
         ELSE IF Contains(m, "queue-proxy")
              THEN CreateContainerRole(s, timestamp, m, "queue_proxy_start",
                                       "queue_proxy_container_id", "CreateContainerQueueProxy")
              ELSE FallThrough(s)
    ELSE FallThrough(s)

\* lines 223-235 (user-container) and 238-250 (queue-proxy): one role's
\* branch of the StartContainer block
StartContainerRole(s, timestamp, m, start, event) ==
    IF s[start] = None
    THEN Continue([s EXCEPT ![start] = timestamp])
    ELSE IF Contains(m, "returns successfully")
         THEN FallThrough([Unwrap(s, start) EXCEPT
                  !.ts_map = Insert(s.ts_map, event, Interval(s[start], timestamp)),
                  ![start] = None])
         ELSE FallThrough(s)

StartContainerBlock_anyCall(s, timestamp, m) ==
    IF ContainsId(m, s.user_container_id)
    THEN StartContainerRole(s, timestamp, m, "user_container_create",
                            "StartContainerUserContainer")
    ELSE IF ContainsId(m, s.queue_proxy_container_id)
         THEN StartContainerRole(s, timestamp, m, "queue_proxy_create",
                                 "StartContainerQueueProxy")
         ELSE FallThrough(s)

\* lines 218-252
StartContainerBlock(s, timestamp, m) ==
    IF Contains(m, "StartContainer")
    THEN IF ContainsId(m, s.user_container_id)
         THEN StartContainerRole(s, timestamp, m, "user_container_create",
                                 "StartContainerUserContainer")
         ELSE IF ContainsId(m, s.queue_proxy_container_id)
              THEN StartContainerRole(s, timestamp, m, "queue_proxy_create",
                                      "StartContainerQueueProxy")
              ELSE FallThrough(s)
    ELSE FallThrough(s)

\* lines 117-252: the body of the for loop for one parsed line
ProcessEntry(s, cutoff, e) ==
    IF BeforeCutoff(e.timestamp, cutoff) THEN s
    ELSE LET r1 == RunPodSandboxBlock(s, e.timestamp, e.message) IN
         IF r1.continue THEN r1.s
         ELSE LET r2 == PullImageBlock(r1.s, e.timestamp, e.message) IN
              IF r2.continue THEN r2.s
              ELSE LET r3 == CreateContainerBlock(r2.s, e.timestamp, e.message) IN
                   IF r3.continue THEN r3.s
                   ELSE StartContainerBlock(r3.s, e.timestamp, e.message).s

ShouldWarn_more(len) == len > num_expected_events

\* line 267
ShouldWarn(len) == len # num_expected_events

----------------------------------------------------------------------------
(* What a line is about, read off the message alone (and, for StartContainer *)
(* lines, the container ids discovered so far): used to state properties    *)
(* and to record history, never by the loop body above.                    *)

\* the pending-start local of each event
PendingField(ev) ==
    CASE ev = "RunPodSandbox"                -> "run_sandbox_start"
      [] ev = "PullImage"                    -> "pull_image_start"
      [] ev = "CreateContainerUserContainer" -> "user_container_start"
      [] ev = "CreateContainerQueueProxy"    -> "queue_proxy_start"
      [] ev = "StartContainerUserContainer"  -> "user_container_create"
      [] ev = "StartContainerQueueProxy"     -> "queue_proxy_create"

Pending(s, ev) == s[PendingField(ev)]

\* the text that marks the result line of each event's call
CompletionPhrase(ev) ==
    CASE ev = "RunPodSandbox" -> "returns sandbox id"
      [] ev = "PullImage"     -> "returns image reference"
      [] ev \in {"CreateContainerUserContainer", "CreateContainerQueueProxy"}
                              -> "returns container id"
      [] ev \in {"StartContainerUserContainer", "StartContainerQueueProxy"}
                              -> "returns successfully"

\* the line belongs to the call sequence of event ev: a CreateContainer
\* line to the role it names, a StartContainer line to the role whose
\* discovered container id it contains
IsLineOf(s, m, ev) ==
    CASE ev = "RunPodSandbox" -> Contains(m, "RunPodSandbox")
      [] ev = "PullImage"     -> Contains(m, "PullImage")
      [] ev = "CreateContainerUserContainer" ->
            Contains(m, "CreateContainer") /\ Contains(m, "user-container")
      [] ev = "CreateContainerQueueProxy" ->
            Contains(m, "CreateContainer") /\ Contains(m, "queue-proxy")
      [] ev = "StartContainerUserContainer" ->
            /\ Contains(m, "StartContainer")
            /\ s.user_container_id # EmptyId /\ s.user_container_id \in m.ids
      [] ev = "StartContainerQueueProxy" ->
            /\ Contains(m, "StartContainer")
            /\ s.queue_proxy_container_id # EmptyId /\ s.queue_proxy_container_id \in m.ids

\* the events whose call sequence the line belongs to: none for a line of
\* another call, both roles' for a line that names both
LineEvents(s, m) == { ev \in CONTAINERD_INFO_EVENTS : IsLineOf(s, m, ev) }

\* how the entry e stands to the locals s it is about to meet:
\*   "discarded"   it is before the cutoff;
\* and, for a line of exactly one event's call sequence,
\*   "orphan"      a result line while the event has no pending start,
\*   "completion"  a result line while the event's start is pending,
\*   "duplicate"   a request line while the event's start is pending,
\*   "start"       a request line while the event has no pending start
\*                 (for the sandbox: a request line of this deployment);
\*   "other"       anything else
LineKind(s, cutoff, e) ==
    LET evs == LineEvents(s, e.message) IN
    IF e.timestamp < cutoff THEN "discarded"
    ELSE IF Cardinality(evs) # 1 THEN "other"
    ELSE LET ev == CHOOSE x \in evs : TRUE IN
         IF Contains(e.message, CompletionPhrase(ev))
         THEN IF Pending(s, ev) = None THEN "orphan" ELSE "completion"
         ELSE IF ev = "RunPodSandbox" /\ ~ContainsDeployment(e.message) THEN "other"
         ELSE IF Pending(s, ev) = None THEN "start" ELSE "duplicate"

\* the call a message is a line of
CallOf(m) ==
    m.text \cap {"RunPodSandbox", "PullImage", "CreateContainer", "StartContainer"}

\* the history record of a line read
Line(s, cutoff, e) ==
    [ kind |-> LineKind(s, cutoff, e),
      evs  |-> LineEvents(s, e.message),
      call |-> CallOf(e.message),
      ts   |-> e.timestamp ]

NoLineRead == [kind |-> "none", evs |-> {}, call |-> {}, ts |-> None]

\* the driver when the scan is looked at on its own: journalctl was spawned
\* and its output is being read
NoRun == [pc |-> "once", i |-> 0, rows |-> << >>, journalctl |-> "spawned"]

----------------------------------------------------------------------------
(* The scan as a state machine *)

Init ==
    /\ st = InitState
    /\ cutoff_time = CutoffTs
    /\ pc = "scan"
    /\ warned = FALSE
    /\ returned = EmptyMap
    /\ n = 0
    /\ line = NoLineRead
    /\ flt = InitState
    /\ hw = [last |-> 0, mono |-> TRUE]
    /\ sent = [c \in {"sandbox", "pull", "user-container", "queue-proxy"} |-> 0]
    /\ log = << >>
    /\ solo = [r \in {"user-container", "queue-proxy"} |-> InitState]
    /\ relogged = FALSE
    /\ delivered = NoLine
    /\ orig = InitState
    /\ raised = [later |-> InitState, kept |-> InitState]
    /\ quiet = InitState
    /\ journal = << >>
    /\ run = NoRun

\* one iteration of the for loop of line 105 over the line e
Consume(e) ==
    /\ pc = "scan"
    /\ st' = ProcessEntry(st, cutoff_time, e)
    /\ pc' = IF st'.panicked THEN "panic" ELSE "scan"
    /\ n' = n + 1
    /\ line' = Line(st, cutoff_time, e)
    /\ flt' = IF e.timestamp < cutoff_time THEN flt
              ELSE ProcessEntry(flt, cutoff_time, e)
    /\ UNCHANGED <<cutoff_time, warned, returned>>

\* the journal holds any lines, in any order
ReadLine(e) ==
    /\ n < MaxLen
    /\ Consume(e)
    /\ UNCHANGED <<hw, sent, log, solo, relogged, delivered, orig, raised, run,
                   quiet, journal>>

\* lines 256-273: the journal ended
Finish ==
    /\ pc = "scan"
    /\ warned' = ShouldWarn(Cardinality(DOMAIN st.ts_map))
    /\ returned' = st.ts_map
    /\ pc' = "done"
    /\ UNCHANGED <<st, cutoff_time, n, line, flt, hw, sent, log, solo,
                   relogged, delivered, orig, raised, run,
                   quiet, journal>>

Next ==
    \/ \E e \in Entries : ReadLine(e)
    \/ Finish

Spec == Init /\ [][Next]_vars

\* the same, recording whether the timestamps of the lines at or after the
\* cutoff came in non-decreasing order
ReadLineOrder(e) ==
    /\ n < MaxLen
    /\ Consume(e)
    /\ hw' = IF e.timestamp < cutoff_time
             THEN hw
             ELSE [last |-> e.timestamp,
                   mono |-> hw.mono /\ e.timestamp >= hw.last]
    /\ UNCHANGED <<sent, log, solo, relogged, delivered, orig, raised, run,
                   quiet, journal>>

NextOrder ==
    \/ \E e \in Entries : ReadLineOrder(e)
    \/ Finish

SpecOrder == Init /\ [][NextOrder]_vars

----------------------------------------------------------------------------
(* The journal of one deployment: containerd logs, for the pod of the       *)
(* deployment, the request and the result line of RunPodSandbox, of         *)
(* PullImage, and per container of CreateContainer and StartContainer.      *)
(* The lines of one call sequence come in order, the sequences interleave   *)
(* freely, the containers are created once their sandbox exists.           *)

Roles == {"user-container", "queue-proxy"}

Calls == {"sandbox", "pull"} \cup Roles

DeploySandboxId == "5b1"

DeployContainerId(r) == IF r = "user-container" THEN "c01" ELSE "c02"

DeployLines(c) ==
    CASE c = "sandbox" ->
           << Msg({"RunPodSandbox"}, TRUE, {}, NoMatch, NoMatch),
              Msg({"RunPodSandbox", "returns sandbox id"}, TRUE,
                  {DeploySandboxId}, DeploySandboxId, NoMatch) >>
      [] c = "pull" ->
           << Msg({"PullImage"}, FALSE, {}, NoMatch, NoMatch),
              Msg({"PullImage", "returns image reference"}, FALSE, {}, NoMatch, NoMatch) >>
      [] c \in Roles ->
           << Msg({"CreateContainer", c}, FALSE, {DeploySandboxId}, NoMatch, NoMatch),
              Msg({"CreateContainer", c, "returns container id"}, FALSE,
                  {DeploySandboxId, DeployContainerId(c)}, NoMatch, DeployContainerId(c)),
              Msg({"StartContainer"}, FALSE, {DeployContainerId(c)}, NoMatch, NoMatch),
              Msg({"StartContainer", "returns successfully"}, FALSE,
                  {DeployContainerId(c)}, NoMatch, NoMatch) >>

\* the next line of call sequence c, stamped by the journal's clock
NextDeployLine(c) == Entry(cutoff_time + 1 + n, DeployLines(c)[sent[c] + 1])

CanLog(c) ==
    /\ sent[c] < Len(DeployLines(c))
    /\ c \in Roles => sent["sandbox"] = Len(DeployLines("sandbox"))

\* the scan of the journal without the lines of the other role
SoloAfter(c, e) ==
    [r \in Roles |-> IF c \in Roles /\ c # r THEN solo[r]
                     ELSE ProcessEntry(solo[r], cutoff_time, e)]

\* containerd logs the next line of call sequence c and the scan reads it
Emit(c) ==
    /\ CanLog(c)
    /\ Consume(NextDeployLine(c))
    /\ sent' = [sent EXCEPT ![c] = @ + 1]
    /\ log' = Append(log, NextDeployLine(c))
    /\ solo' = SoloAfter(c, NextDeployLine(c))
    /\ UNCHANGED <<hw, relogged, delivered, orig, raised, run,
                   quiet, journal>>

NextDeploy ==
    \/ \E c \in Calls : Emit(c)
    \/ Finish

SpecDeploy == Init /\ [][NextDeploy]_vars

----------------------------------------------------------------------------
(* The same journal scanned with two cutoffs, side by side: the journal     *)
(* holds lines of the deployment, in any order and any number of times,     *)
(* with any timestamps from the cutoff on.                                  *)

DeployMessages == UNION { { DeployLines(c)[k] : k \in 1 .. Len(DeployLines(c)) } : c \in Calls }

CutoffEntries == { Entry(d[1], d[2]) : d \in (CutoffTs .. MaxTs) \X DeployMessages }

\* raised.later: the scan with the later cutoff cutoff_time + 1;
\* raised.kept: the scan with cutoff_time of the journal without the lines
\* before cutoff_time + 1
ReadLineCutoffs(e) ==
    /\ n < MaxCutoffLen
    /\ Consume(e)
    /\ raised' = [ later |-> ProcessEntry(raised.later, cutoff_time + 1, e),
                   kept  |-> IF e.timestamp < cutoff_time + 1 THEN raised.kept
                             ELSE ProcessEntry(raised.kept, cutoff_time, e) ]
    /\ UNCHANGED <<hw, sent, log, solo, relogged, delivered, orig, run,
                   quiet, journal>>

NextCutoffs ==
    \/ \E e \in CutoffEntries : ReadLineCutoffs(e)
    \/ Finish

SpecCutoffs == Init /\ [][NextCutoffs]_vars

----------------------------------------------------------------------------
(* The journal of one deployment in which calls are retried: the line       *)
(* logged last for a call sequence may be logged once more, at a later      *)
(* timestamp; this happens to at most one line of the journal.              *)

\* containerd logs the next line of call sequence c
LogNext(c) ==
    /\ CanLog(c)
    /\ Consume(NextDeployLine(c))
    /\ sent' = [sent EXCEPT ![c] = @ + 1]
    /\ UNCHANGED <<hw, log, solo, relogged, delivered, orig, raised, run,
                   quiet, journal>>

\* containerd logs the last line of call sequence c a second time
Relog(c) ==
    /\ ~relogged
    /\ sent[c] > 0
    /\ Consume(Entry(cutoff_time + 1 + n, DeployLines(c)[sent[c]]))
    /\ relogged' = TRUE
    /\ UNCHANGED <<hw, sent, log, solo, delivered, orig, raised, run,
                   quiet, journal>>

NextRelog ==
    \/ \E c \in Calls : LogNext(c)
    \/ \E c \in Calls : Relog(c)
    \/ Finish

SpecRelog == Init /\ [][NextRelog]_vars

----------------------------------------------------------------------------
(* The journal of a deployment whose containers are created more than once: *)
(* after the sandbox, containerd logs for each role up to MaxCycles         *)
(* creation cycles, a request line and then a result line carrying the id   *)
(* of the container created; the roles' cycles interleave.                  *)

\* the next creation line of role r; i is the id of the container created
CreateLine(r, i) ==
    IF sent[r] % 2 = 0
    THEN Msg({"CreateContainer", r}, FALSE, {DeploySandboxId}, NoMatch, NoMatch)
    ELSE Msg({"CreateContainer", r, "returns container id"}, FALSE,
             {DeploySandboxId, i}, NoMatch, i)

LogCreate(r, i) ==
    /\ sent["sandbox"] = Len(DeployLines("sandbox"))
    /\ sent[r] < 2 * MaxCycles
    /\ sent[r] % 2 = 0 => i = DeployContainerId(r)
    /\ Consume(Entry(cutoff_time + 1 + n, CreateLine(r, i)))
    /\ delivered' = Entry(cutoff_time + 1 + n, CreateLine(r, i))
    /\ sent' = [sent EXCEPT ![r] = @ + 1]
    /\ UNCHANGED <<hw, log, solo, relogged, orig, raised, run,
                   quiet, journal>>

NextCycle ==
    \/ LogNext("sandbox")
    \/ \E r \in Roles, i \in ContainerIds : LogCreate(r, i)
    \/ Finish

SpecCycle == Init /\ [][NextCycle]_vars

----------------------------------------------------------------------------
(* A journal under at-least-once delivery: the line delivered last may be   *)
(* delivered again, any number of times.                                    *)

\* the journal holds any MaxDupLen lines; the scan reads the next one
Deliver(e) ==
    /\ n < MaxDupLen
    /\ Consume(e)
    /\ delivered' = e
    /\ orig' = ProcessEntry(orig, cutoff_time, e)
    /\ UNCHANGED <<hw, sent, log, solo, relogged, raised, run,
                   quiet, journal>>

\* the scan reads the line delivered last once more
Redeliver ==
    /\ pc = "scan"
    /\ delivered # NoLine
    /\ st' = ProcessEntry(st, cutoff_time, delivered)
    /\ pc' = IF st'.panicked THEN "panic" ELSE "scan"
    /\ line' = Line(st, cutoff_time, delivered)
    /\ flt' = IF delivered.timestamp < cutoff_time THEN flt
              ELSE ProcessEntry(flt, cutoff_time, delivered)
    /\ UNCHANGED <<cutoff_time, warned, returned, n, hw, sent, log, solo,
                   relogged, delivered, orig, raised, run,
                   quiet, journal>>

NextDup ==
    \/ \E e \in Entries : Deliver(e)
    \/ Redeliver
    \/ Finish

SpecDup == Init /\ [][NextDup]_vars

----------------------------------------------------------------------------
(* The journal as journalctl prints it: raw lines, which the loop reads,    *)
(* deserializes and takes the timestamp and the message from (lines         *)
(* 105-115) before the body above runs.                                     *)

\* a raw line: whether it could be read, whether it is valid JSON, what its
\* __REALTIME_TIMESTAMP and MESSAGE fields are
RawLine(read, json, ts_form, ts, msg_form, message) ==
    [ read |-> read, json |-> json, ts_form |-> ts_form, ts |-> ts,
      msg_form |-> msg_form, message |-> message ]

EmptyMessage == Msg({}, FALSE, {}, NoMatch, NoMatch)

\* the line journalctl prints for an entry of containerd's journal
WellFormed(e) == RawLine(TRUE, TRUE, "number_string", e.timestamp, "string", e.message)

\* lines that do not hold a timestamp and a message
MalformedLines ==
    { RawLine(FALSE, FALSE, "absent", None, "absent", EmptyMessage),
      RawLine(TRUE, FALSE, "absent", None, "absent", EmptyMessage),
      RawLine(TRUE, TRUE, "absent", None, "string", EmptyMessage),
      RawLine(TRUE, TRUE, "number_string", CutoffTs, "absent", EmptyMessage),
      RawLine(TRUE, TRUE, "not_a_string", None, "string", EmptyMessage),
      RawLine(TRUE, TRUE, "not_a_number", None, "string", EmptyMessage),
      RawLine(TRUE, TRUE, "out_of_range", None, "string", EmptyMessage) }

\* outcomes of deserializing a raw line
Panicked == [outcome |-> "panic", entry |-> NoLine]
Skipped == [outcome |-> "skip", entry |-> NoLine]
Parsed(e) == [outcome |-> "entry", entry |-> e]

\* lines 43-49 with line 114: as_str().unwrap_or("") of the timestamp field,
\* then parse().unwrap() and from_timestamp_micros(..).ok_or(..).unwrap()
parse_timestamp(l) ==
    IF l.ts_form = "number_string" THEN Parsed(Entry(l.ts, l.message)) ELSE Panicked

\* lines 106-115
ParseLine(l) ==
    IF ~l.read THEN Panicked
    ELSE IF ~l.json THEN Panicked
    ELSE IF l.ts_form = "absent" \/ l.msg_form = "absent" THEN Skipped
    ELSE parse_timestamp(l)

\* a MESSAGE that is not a string is read as "" (line 113)
MessageNotAString(ts) == RawLine(TRUE, TRUE, "number_string", ts, "not_a_string", EmptyMessage)

\* the history record of a raw line that gave no entry
MalformedLineRead == [kind |-> "malformed", evs |-> {}, call |-> {}, ts |-> None]

\* one iteration of the for loop of line 105 over the raw line l
ConsumeRaw(l) ==
    LET p == ParseLine(l) IN
    IF p.outcome = "entry"
    THEN /\ Consume(p.entry)
         /\ delivered' = p.entry
    ELSE /\ pc = "scan"
         /\ pc' = IF p.outcome = "panic" THEN "panic" ELSE "scan"
         /\ n' = n + 1
         /\ line' = MalformedLineRead
         /\ delivered' = NoLine
         /\ UNCHANGED <<st, flt, cutoff_time, warned, returned>>

\* the journal holds, in timestamp order, any lines of containerd
ReadEntry(m) ==
    /\ n < MaxRawLen
    /\ ConsumeRaw(WellFormed(Entry(cutoff_time + n, m)))
    /\ UNCHANGED <<hw, sent, log, solo, relogged, orig, raised, run,
                   quiet, journal>>

\* ... and lines that do not hold a timestamp and a message
ReadMalformed(l) ==
    /\ n < MaxRawLen
    /\ ConsumeRaw(l)
    /\ UNCHANGED <<hw, sent, log, solo, relogged, orig, raised, run,
                   quiet, journal>>

\* ... and lines whose MESSAGE is not a string
ReadMessageNotAString ==
    /\ n < MaxRawLen
    /\ ConsumeRaw(MessageNotAString(cutoff_time + n))
    /\ UNCHANGED <<hw, sent, log, solo, relogged, orig, raised, run,
                   quiet, journal>>

NextRaw ==
    \/ \E m \in Messages : ReadEntry(m)
    \/ \E l \in MalformedLines : ReadMalformed(l)
    \/ ReadMessageNotAString
    \/ Finish

SpecRaw == Init /\ [][NextRaw]_vars

----------------------------------------------------------------------------
(* The journal of one deployment among the lines of other operations:       *)
(* containerd logs many calls besides the four the scan looks for, and      *)
(* their lines may carry the deployment's name, sandbox and container ids,  *)
(* role names and the phrases that end the scan's result lines              *)
(* ("StopContainer for \"c01\" returns successfully").                      *)

\* messages that contain none of "RunPodSandbox", "PullImage",
\* "CreateContainer", "StartContainer"
NoiseMsgs ==
    { Msg({}, d, {}, NoMatch, NoMatch) : d \in BOOLEAN }
    \cup { Msg({"returns sandbox id"}, TRUE, {DeploySandboxId}, DeploySandboxId, NoMatch),
           Msg({"returns image reference"}, FALSE, {}, NoMatch, NoMatch) }
    \cup { Msg({"returns container id", r}, FALSE,
               {DeploySandboxId, DeployContainerId(r)}, NoMatch, DeployContainerId(r)) :
             r \in Roles }
    \cup { Msg({"returns successfully"}, FALSE, i, NoMatch, NoMatch) :
             i \in {{}, {"c01"}, {"c02"}} }

\* the number of lines of the deployment logged so far
Logged == sent["sandbox"] + sent["pull"] + sent["user-container"] + sent["queue-proxy"]

\* the next line of call sequence c; the journal's clock ticks with every
\* line of the deployment
QuietLine(c) == Entry(cutoff_time + 1 + Logged, DeployLines(c)[sent[c] + 1])

\* containerd logs the next line of call sequence c
LogQuiet(c) ==
    /\ CanLog(c)
    /\ Consume(QuietLine(c))
    /\ delivered' = QuietLine(c)
    /\ sent' = [sent EXCEPT ![c] = @ + 1]
    /\ quiet' = ProcessEntry(quiet, cutoff_time, QuietLine(c))
    /\ UNCHANGED <<hw, log, solo, relogged, orig, raised, run, journal>>

\* containerd logs a line of another operation, at the time of the line
\* before it
ReadNoise(m) ==
    /\ n - Logged < MaxNoise
    /\ Consume(Entry(cutoff_time + Logged, m))
    /\ delivered' = Entry(cutoff_time + Logged, m)
    /\ UNCHANGED <<hw, sent, log, solo, relogged, orig, raised, run, quiet, journal>>

NextNoise ==
    \/ \E c \in Calls : LogQuiet(c)
    \/ \E m \in NoiseMsgs : ReadNoise(m)
    \/ Finish

SpecNoise == Init /\ [][NextNoise]_vars

----------------------------------------------------------------------------
(* The scan of a journal fixed beforehand: journalctl is run without        *)
(* --follow, so its output is a finite sequence of lines, which the for     *)
(* loop of line 105 takes from reader.lines() one by one until the          *)
(* iterator ends. Here the lines are those of the sandbox and of the        *)
(* user-container of the deployment, in any order and any number of times;  *)
(* the first line is older than the cutoff.                                 *)

StreamMessages ==
    UNION { { DeployLines(c)[k] : k \in 1 .. Len(DeployLines(c)) } :
              c \in {"sandbox", "user-container"} }

Streams ==
    UNION { [1 .. k -> StreamMessages] : k \in 0 .. MaxStreamLen }

\* the k-th line of the output
StreamEntry(k, m) == Entry(CutoffTs - 1 + (k - 1), m)

StreamEnded_early(k, stream) == k + 1 >= Len(stream)

\* reader.lines() has no next line
StreamEnded(k, stream) == k = Len(stream)

InitStream ==
    /\ st = InitState
    /\ cutoff_time = CutoffTs
    /\ pc = "scan"
    /\ warned = FALSE
    /\ returned = EmptyMap
    /\ n = 0
    /\ line = NoLineRead
    /\ flt = InitState
    /\ hw = [last |-> 0, mono |-> TRUE]
    /\ sent = [c \in {"sandbox", "pull", "user-container", "queue-proxy"} |-> 0]
    /\ log = << >>
    /\ solo = [r \in {"user-container", "queue-proxy"} |-> InitState]
    /\ relogged = FALSE
    /\ delivered = NoLine
    /\ orig = InitState
    /\ raised = [later |-> InitState, kept |-> InitState]
    /\ run = NoRun
    /\ quiet = InitState
    /\ \E ms \in Streams : journal = [k \in 1 .. Len(ms) |-> StreamEntry(k, ms[k])]

\* one iteration of the for loop over the next line of the output
ReadNext ==
    /\ ~StreamEnded(n, journal)
    /\ Consume(journal[n + 1])
    /\ delivered' = journal[n + 1]
    /\ UNCHANGED <<hw, sent, log, solo, relogged, orig, raised, run, quiet, journal>>

\* the iterator ended: the loop is left and the map returned
FinishStream ==
    /\ StreamEnded(n, journal)
    /\ Finish

NextStream ==
    \/ ReadNext
    \/ FinishStream

SpecStream == InitStream /\ [][NextStream]_vars

\* the scan is sequential code with no blocking call but the read of the
\* next line, which returns once journalctl has printed it or has exited
SpecStreamFair == SpecStream /\ WF_vars(NextStream)

\* the locals after the first k lines of the stream, each taken once and in
\* order
RECURSIVE ScanOf(_, _, _)
ScanOf(stream, cutoff, k) ==
    IF k = 0 THEN InitState
    ELSE ProcessEntry(ScanOf(stream, cutoff, k - 1), cutoff, stream[k])

----------------------------------------------------------------------------
(* The repetition driver (src/src/experiment.rs): run_knative_experiment    *)
(* calls run_knative_experiment_once num_repeats times; each call spawns    *)
(* journalctl, scans its output and hands the timeline back, and the driver *)
(* writes one result row per call that returned.                           *)

SpawnOutcomes == {"spawned", "spawn_failed", "no_stdout"}

AfterSpawn_empty(outcome) == IF outcome = "spawned" THEN "scan" ELSE "done"

\* containerd.rs lines 70-80: spawn().unwrap() and
\* stdout.take().ok_or(..).unwrap() panic when journalctl cannot be started
\* or its stdout cannot be taken
AfterSpawn(outcome) == IF outcome = "spawned" THEN "scan" ELSE "panic"

InitRun ==
    /\ st = InitState
    /\ cutoff_time = CutoffTs
    /\ pc = "idle"
    /\ warned = FALSE
    /\ returned = EmptyMap
    /\ n = 0
    /\ line = NoLineRead
    /\ flt = InitState
    /\ hw = [last |-> 0, mono |-> TRUE]
    /\ sent = [c \in {"sandbox", "pull", "user-container", "queue-proxy"} |-> 0]
    /\ log = << >>
    /\ solo = [r \in {"user-container", "queue-proxy"} |-> InitState]
    /\ relogged = FALSE
    /\ delivered = NoLine
    /\ orig = InitState
    /\ raised = [later |-> InitState, kept |-> InitState]
    /\ quiet = InitState
    /\ journal = << >>
    /\ run = [pc |-> "idle", i |-> 0, rows |-> << >>, journalctl |-> "none"]

NewScan_stale(s) == s

\* containerd.rs lines 83-96: the locals of the scan are declared, and
\* initialized, in the body of the function, anew at every call; s is what
\* the call before left in them
NewScan(s) == InitState

\* experiment.rs lines 614-617 and 515: the next repetition calls the scan
RunOnce ==
    /\ run.pc = "idle"
    /\ run.i < MaxRepeats
    /\ run' = [run EXCEPT !.pc = "once", !.journalctl = "none"]
    /\ pc' = "spawn"
    /\ st' = NewScan(st)
    /\ flt' = InitState
    /\ n' = 0
    /\ line' = NoLineRead
    /\ sent' = [c \in DOMAIN sent |-> 0]
    /\ warned' = FALSE
    /\ returned' = EmptyMap
    /\ UNCHANGED <<cutoff_time, hw, log, solo, relogged, delivered, orig, raised,
                   quiet, journal>>

\* containerd.rs lines 70-80
SpawnJournalctl(outcome) ==
    /\ pc = "spawn"
    /\ run' = [run EXCEPT !.journalctl = outcome]
    /\ pc' = AfterSpawn(outcome)
    /\ UNCHANGED <<st, cutoff_time, warned, returned, n, line, flt, hw, sent, log,
                   solo, relogged, delivered, orig, raised,
                   quiet, journal>>

\* experiment.rs lines 618-623: the call returned, its row is written
WriteResults ==
    /\ run.pc = "once"
    /\ pc = "done"
    /\ run' = [run EXCEPT !.pc = "idle", !.i = @ + 1, !.rows = Append(@, run.i)]
    /\ pc' = "idle"
    /\ UNCHANGED <<st, cutoff_time, warned, returned, n, line, flt, hw, sent, log,
                   solo, relogged, delivered, orig, raised,
                   quiet, journal>>

NextRun ==
    \/ RunOnce
    \/ \E outcome \in SpawnOutcomes : SpawnJournalctl(outcome)
    \/ \E c \in Calls : LogNext(c)
    \/ Finish
    \/ WriteResults

SpecRun == InitRun /\ [][NextRun]_vars

----------------------------------------------------------------------------
(* Properties *)

\* the interval of event ev was written (inserted or overwritten with
\* another value) by the step
Written(ev) ==
    /\ ev \in DOMAIN st'.ts_map
    /\ ev \notin DOMAIN st.ts_map \/ st.ts_map[ev] # st'.ts_map[ev]

StartEvent(r) ==
    IF r = "user-container" THEN "StartContainerUserContainer"
    ELSE "StartContainerQueueProxy"

CreateEvent(r) ==
    IF r = "user-container" THEN "CreateContainerUserContainer"
    ELSE "CreateContainerQueueProxy"

ContainerIdField(r) ==
    IF r = "user-container" THEN "user_container_id" ELSE "queue_proxy_container_id"

\* C1: an entry is discarded if and only if its timestamp is strictly
\* earlier than the cutoff. A discarded entry leaves the locals and the
\* timeline unchanged; an entry at or after the cutoff (also one exactly at
\* the cutoff) is processed: when it is the request line of the sandbox or
\* of the image pull and none is pending, its timestamp becomes the pending
\* start. So the locals always equal those of the scan of the journal with
\* the entries before the cutoff removed, and so does the returned timeline.
C1_CutoffDiscardsExactlyStale ==
    [][ /\ line'.kind = "discarded" => st' = st
        /\ (line'.kind = "start" /\ line'.evs \subseteq {"RunPodSandbox", "PullImage"})
              => \A ev \in line'.evs : Pending(st', ev) = line'.ts
        /\ st' = flt'
        /\ pc' = "done" => returned' = flt'.ts_map ]_vars

\* C1 witness: a stale line was read after a line exactly at the cutoff
\* had started the sandbox and an interval had been found
C1_Witness ==
    /\ line.kind = "discarded"
    /\ line.ts < cutoff_time
    /\ st.run_sandbox_start = cutoff_time
    /\ DOMAIN st.ts_map # {}

\* C3 (as claimed): while a role's container id is undiscovered (empty), no
\* StartContainer line is attributed to the role: its start is not pending
\* and it has no start interval; a StartContainer line changes a role's
\* pending start or start interval only if it contains the role's
\* discovered id, and one that contains no discovered id changes nothing.
C3_StartNeedsDiscoveredId ==
    [][ /\ \A r \in Roles :
              st'[ContainerIdField(r)] = EmptyId
                 => /\ Pending(st', StartEvent(r)) = None
                    /\ StartEvent(r) \notin DOMAIN st'.ts_map
        /\ (line'.call = {"StartContainer"} /\ line'.kind # "discarded")
              => /\ \A r \in Roles :
                      (Pending(st', StartEvent(r)) # Pending(st, StartEvent(r))
                          \/ Written(StartEvent(r)))
                         => StartEvent(r) \in line'.evs
                 /\ line'.evs = {} => st' = st ]_vars

\* C6 (as claimed): a result line read while its event has no pending start
\* changes nothing: no pending start, no id, no interval
C6_OrphanCompletionIgnored ==
    [][ line'.kind = "orphan" => st' = st ]_vars

\* C7: first start wins. A request line read while its event's start is
\* already pending changes nothing; a pending start, once set, is never
\* replaced by another timestamp, only cleared; and an interval written
\* while the event's start is pending has that pending start as its start
\* and the timestamp of the line as its end.
C7_FirstStartWins ==
    [][ /\ line'.kind = "duplicate" => st' = st
        /\ \A ev \in CONTAINERD_INFO_EVENTS :
              /\ Pending(st, ev) # None
                    => Pending(st', ev) \in {Pending(st, ev), None}
              /\ Written(ev)
                    => st'.ts_map[ev] = <<Pending(st, ev), line'.ts>> ]_vars

\* C7 witness: a second request line, with a later timestamp than the
\* pending start, was read and the first timestamp is still pending
C7_Witness ==
    /\ line.kind = "duplicate"
    /\ \E ev \in line.evs : Pending(st, ev) # None /\ Pending(st, ev) < line.ts

\* every interval of a timeline has its start no later than its end
Ordered(map) == \A ev \in DOMAIN map : map[ev][1] <= map[ev][2]

\* C4 (as claimed): in every state of the scan and in the returned
\* timeline every interval has start <= end, whatever the order of the
\* timestamps in the journal
C4_OrderedAlways == Ordered(st.ts_map) /\ Ordered(returned)

\* C4 (amended): the same, for journals whose lines at or after the cutoff
\* carry non-decreasing timestamps
C4_OrderedIfMonotone == hw.mono => Ordered(st.ts_map) /\ Ordered(returned)

\* C4 witness: a journal in timestamp order gave an interval of positive
\* length, and the timeline was returned
C4_Witness ==
    /\ hw.mono
    /\ pc = "done"
    /\ \E ev \in DOMAIN returned : returned[ev][1] < returned[ev][2]

\* C5 (as claimed): a result line read while its event has no pending start
\* inserts no interval, and the scan goes on to the next line
C5_OrphanCompletionInsertsNothing ==
    [][ (n' = n + 1 /\ line'.kind = "orphan")
           => st'.ts_map = st.ts_map /\ pc' = "scan" ]_vars

\* a role's creation and start locals, and its part of the timeline
RoleLocals(s, r) ==
    << Pending(s, CreateEvent(r)), Pending(s, StartEvent(r)), s[ContainerIdField(r)] >>

RoleIntervals(s, r) ==
    [ev \in DOMAIN s.ts_map \cap {CreateEvent(r), StartEvent(r)} |-> s.ts_map[ev]]

\* C2 (as claimed): role isolation. For every interleaving of the two
\* roles' creation and start lines of a deployment, each role's creation and
\* start intervals equal those of the scan of the same journal without the
\* other role's lines, and a line of one role never changes the other role's
\* pending creation start, pending start or container id.
C2_RoleIsolation ==
    [][ \A r \in Roles :
          /\ RoleIntervals(st', r) = RoleIntervals(solo'[r], r)
          /\ \A o \in Roles \ {r} :
                sent'[o] # sent[o] => RoleLocals(st', r) = RoleLocals(st, r) ]_vars

\* C8 (as claimed): a journal in which entries are delivered more than once
\* in a row yields the same timeline as the journal delivered exactly once
C8_RedeliverySameTimeline == pc = "done" => returned = orig.ts_map

\* C9: the scan never panics on the lines of a deployment; when the journal
\* ends, wherever it ends, the timeline accumulated so far is returned, and
\* the completeness warning is given exactly when it holds fewer than
\* num_expected_events intervals
C9_PartialStreamReturned ==
    /\ pc # "panic"
    /\ pc = "done" =>
          /\ returned = st.ts_map
          /\ warned <=> Cardinality(DOMAIN returned) < num_expected_events

\* C9 witness: the journal ended after some but not all intervals were found
C9_Witness ==
    /\ pc = "done"
    /\ warned
    /\ returned # EmptyMap
    /\ DOMAIN returned # CONTAINERD_INFO_EVENTS
    /\ Len(log) < 12

\* the journal of the scenario: the sandbox, the image pull and the
\* user-container, in this order, at the timestamps t0 < t1 < ... < t7 that
\* follow the cutoff; no line of the queue-proxy
ScenarioCalls ==
    << "sandbox", "sandbox", "pull", "pull",
       "user-container", "user-container", "user-container", "user-container" >>

ScenarioPosition(i) == Cardinality({ j \in 1 .. i : ScenarioCalls[j] = ScenarioCalls[i] })

ScenarioLog ==
    [ i \in 1 .. 8 |->
        Entry(cutoff_time + i, DeployLines(ScenarioCalls[i])[ScenarioPosition(i)]) ]

C11_MalformedLineSkipped ==
    [][ (n' = n + 1 /\ line'.kind = "malformed") => (st' = st /\ pc' = "scan") ]_vars

\* C12: when journalctl cannot be spawned or its stdout cannot be taken, the
\* call panics: it returns no timeline, the driver writes no row for the
\* repetition (the rows are those of the repetitions before it), and
\* nothing follows
C12_SourceFailureIsFatal ==
    run.journalctl \in {"spawn_failed", "no_stdout"} =>
        /\ pc = "panic"
        /\ returned = EmptyMap /\ ~warned
        /\ run.pc = "once"
        /\ run.rows = [k \in 1 .. run.i |-> k - 1]

\* C12 witness: journalctl failed to spawn in the second repetition, after
\* the first repetition returned a timeline and its row was written
C12_Witness ==
    /\ run.journalctl = "spawn_failed"
    /\ pc = "panic"
    /\ run.i = 1
    /\ run.rows = <<0>>

\* a role's creation-phase state: its pending creation start, its container
\* id and its creation interval
CreationState(s, r) ==
    << Pending(s, CreateEvent(r)), s[ContainerIdField(r)],
       IF CreateEvent(r) \in DOMAIN s.ts_map THEN s.ts_map[CreateEvent(r)] ELSE <<None, None>> >>

\* C13 (as claimed): a CreateContainer line changes a role's creation-phase
\* state only if it carries that role's discriminator and not the other
\* role's: a line carrying neither or both changes no creation-phase state
C13_CreationRoleByDiscriminator ==
    [][ (n' = n + 1 /\ Contains(delivered'.message, "CreateContainer"))
           => \A r \in Roles :
                 CreationState(st', r) # CreationState(st, r)
                    => /\ Contains(delivered'.message, r)
                       /\ \A o \in Roles \ {r} : ~Contains(delivered'.message, o) ]_vars

\* the message is a result line of event ev (sandbox, or a role's creation)
\* that carries no id the pattern could extract
IsUnidentifiedCompletion(m, ev) ==
    \/ /\ ev = "RunPodSandbox"
       /\ Contains(m, "RunPodSandbox") /\ Contains(m, "returns sandbox id")
       /\ m.sbx_cap = NoMatch
    \/ \E r \in Roles :
          /\ ev = CreateEvent(r)
          /\ Contains(m, "CreateContainer") /\ Contains(m, "returns container id")
          /\ Contains(m, r) /\ \A o \in Roles \ {r} : ~Contains(m, o)
          /\ m.ctr_cap = NoMatch

\* a well-formed result line of event ev carrying the id i, at timestamp ts
ValidCompletion(s, ev, i, ts) ==
    IF ev = "RunPodSandbox"
    THEN Entry(ts, Msg({"RunPodSandbox", "returns sandbox id"}, TRUE, {i}, i, NoMatch))
    ELSE Entry(ts, Msg({"CreateContainer", "returns container id",
                        IF ev = "CreateContainerUserContainer" THEN "user-container"
                        ELSE "queue-proxy"},
                       FALSE, {s.sbx_id, i}, NoMatch, i))

\* C14: a sandbox or creation result line from which no id is extracted,
\* read while the event's start is pending, changes nothing (no interval,
\* the pending start and the ids as they were) and raises no error; a valid
\* result line read next emits the interval with the retained start
C14_UnidentifiedCompletionKeepsPending ==
    [][ \A ev \in {"RunPodSandbox", "CreateContainerUserContainer", "CreateContainerQueueProxy"} :
          ( /\ n' = n + 1
            /\ IsUnidentifiedCompletion(delivered'.message, ev)
            /\ Pending(st, ev) # None )
          => /\ st' = st
             /\ pc' = "scan"
             /\ \A i \in SandboxIds \cup ContainerIds :
                   (ev = "RunPodSandbox" \/ st.sbx_id # EmptyId) =>
                      ProcessEntry(st', cutoff_time,
                                   ValidCompletion(st', ev, i, delivered'.timestamp + 1)).ts_map[ev]
                         = <<Pending(st, ev), delivered'.timestamp + 1>> ]_vars

\* C14 witness: a creation result line without a container id was read while
\* the role's creation start was pending, and the start is still pending
C14_Witness ==
    /\ \E r \in Roles :
          /\ IsUnidentifiedCompletion(delivered.message, CreateEvent(r))
          /\ ContainsId(delivered.message, st.sbx_id)
          /\ Pending(st, CreateEvent(r)) # None
          /\ Pending(st, CreateEvent(r)) < delivered.timestamp
    /\ st.sbx_id # EmptyId
    /\ pc = "scan"

\* C15: in every state of the scan, and in the returned timeline, the keys
\* are among the six event names, so the timeline never holds more than six
\* entries; an interval inserted for a key already present replaces it
C15_ClosedKeySet ==
    /\ DOMAIN st.ts_map \subseteq CONTAINERD_INFO_EVENTS
    /\ DOMAIN returned \subseteq CONTAINERD_INFO_EVENTS
    /\ Cardinality(DOMAIN st.ts_map) <= num_expected_events
    /\ Cardinality(DOMAIN returned) <= num_expected_events

\* C15 witness: a timeline holding all six events was returned
C15_Witness ==
    /\ pc = "done"
    /\ DOMAIN returned = CONTAINERD_INFO_EVENTS
    /\ ~warned

\* the interval of event ev in the timeline of s, or none
IntervalOf(s, ev) == IF ev \in DOMAIN s.ts_map THEN s.ts_map[ev] ELSE <<None, None>>

\* C16 (as claimed): a RunPodSandbox result line that does not contain the
\* deployment id changes neither sbx_id nor the RunPodSandbox interval
C16_ForeignSandboxResultIgnored ==
    [][ ( /\ n' = n + 1
          /\ Contains(delivered'.message, "RunPodSandbox")
          /\ Contains(delivered'.message, "returns sandbox id")
          /\ ~ContainsDeployment(delivered'.message) )
        => /\ st'.sbx_id = st.sbx_id
           /\ IntervalOf(st', "RunPodSandbox") = IntervalOf(st, "RunPodSandbox") ]_vars

\* C17 (as claimed): cutoff monotonicity. Scanning the same journal with the
\* cutoffs c1 = cutoff_time and c2 = cutoff_time + 1: for every interval
\* returned under c1 whose start or end was supplied by an entry before c2
\* (which c2 excludes), under c2 either that event has no interval or every
\* other event has the same interval, or none, as under c1
C17_CutoffMonotone ==
    pc = "done" =>
       \A ev \in DOMAIN returned :
          (returned[ev][1] < cutoff_time + 1 \/ returned[ev][2] < cutoff_time + 1)
             => \/ ev \notin DOMAIN raised.later.ts_map
                \/ \A o \in CONTAINERD_INFO_EVENTS \ {ev} :
                      IntervalOf(raised.later, o) = IntervalOf(st, o)

\* C17 (amended): scanning the same journal with the later cutoff
\* c2 = cutoff_time + 1 gives exactly the scan, with cutoff_time, of the
\* journal without the entries before c2; so an interval whose start or end
\* was supplied by an excluded entry is under c2 either absent or formed anew
\* from entries at or after c2 (the intervals of other events may change as
\* well, when entries of theirs are excluded too)
C17_RaisedCutoffIsFilter ==
    /\ raised.later = raised.kept
    /\ \A ev \in DOMAIN raised.later.ts_map :
          /\ raised.later.ts_map[ev][1] >= cutoff_time + 1
          /\ raised.later.ts_map[ev][2] >= cutoff_time + 1

\* C17 witness: an interval returned under cutoff_time had its start supplied
\* by an entry that the later cutoff excludes; under the later cutoff the
\* event has another interval, and another event's interval differs too
C17_Witness ==
    /\ pc = "done"
    /\ \E ev \in DOMAIN returned :
          /\ returned[ev][1] < cutoff_time + 1
          /\ ev \in DOMAIN raised.later.ts_map
          /\ raised.later.ts_map[ev] # returned[ev]
          /\ \E o \in CONTAINERD_INFO_EVENTS \ {ev} :
                IntervalOf(raised.later, o) # IntervalOf(st, o)

\* C18 (as claimed): sbx_id is set only together with the RunPodSandbox
\* interval: in every state, sbx_id non-empty implies that the interval is
\* in the timeline (so a sandbox result line read with no sandbox start
\* pending, which inserts no interval, does not set sbx_id)
C18_SandboxIdOnlyWithInterval ==
    st.sbx_id # EmptyId => "RunPodSandbox" \in DOMAIN st.ts_map

\* C19: a role's creation-phase state (pending creation start, container
\* id, creation interval) changes only on a line read while sbx_id is known
\* and that contains sbx_id
C19_CreationNeedsSandboxId ==
    [][ n' = n + 1 =>
          \A r \in Roles :
             CreationState(st', r) # CreationState(st, r)
                => /\ st.sbx_id # EmptyId
                   /\ st.sbx_id \in delivered'.message.ids ]_vars

\* C19 witness: with sbx_id known and a creation start pending, a
\* CreateContainer result line naming another sandbox was read, and the
\* creation start is still pending
C19_Witness ==
    /\ st.sbx_id # EmptyId
    /\ Contains(delivered.message, "CreateContainer")
    /\ Contains(delivered.message, "returns container id")
    /\ Contains(delivered.message, "user-container")
    /\ delivered.message.ctr_cap # NoMatch
    /\ st.sbx_id \notin delivered.message.ids
    /\ st.user_container_start # None
    /\ st.user_container_start < delivered.timestamp
    /\ st.user_container_id = EmptyId

\* C20: creation cycle per role. A role's creation request line, read while
\* its creation start is unset, sets the start to the line's timestamp and
\* nothing else of the role; the following result line with a container id
\* stores the id, emits (start, timestamp) and clears the start; a later
\* cycle starts from the unset start and replaces the interval and the id
C20_CreationCycle ==
    [][ \A r \in Roles :
          (sent'[r] # sent[r]) =>
             IF sent[r] % 2 = 0
             THEN /\ Pending(st, CreateEvent(r)) = None
                  /\ Pending(st', CreateEvent(r)) = delivered'.timestamp
                  /\ st'[ContainerIdField(r)] = st[ContainerIdField(r)]
                  /\ st'.ts_map = st.ts_map
             ELSE /\ Pending(st, CreateEvent(r)) # None
                  /\ Pending(st', CreateEvent(r)) = None
                  /\ st'[ContainerIdField(r)] = delivered'.message.ctr_cap
                  /\ IntervalOf(st', CreateEvent(r))
                        = <<Pending(st, CreateEvent(r)), delivered'.timestamp>> ]_vars

\* C20 witness: the user-container's second creation cycle is complete; its
\* interval is that of the second cycle and its id the second container's
C20_Witness ==
    /\ sent["user-container"] = 4
    /\ Contains(delivered.message, "user-container")
    /\ st.user_container_start = None
    /\ st.user_container_id = "c02"
    /\ IntervalOf(st, "CreateContainerUserContainer")[2] = delivered.timestamp
    /\ IntervalOf(st, "CreateContainerUserContainer")[1] >= cutoff_time + 5

\* C21 (as claimed): start cycle per role. For a StartContainer line that
\* contains the known container id of exactly one role: read while that
\* role's start is unset, it sets the role's pending start to its timestamp;
\* read as a result line while the start is pending, it emits the role's
\* start interval (pending start, timestamp) and clears the pending start;
\* read as a request line while the start is pending, it changes nothing
C21_StartCycle ==
    [][ \A r \in Roles :
          (n' = n + 1 /\ line'.evs = {StartEvent(r)}) =>
             /\ line'.kind = "start"
                   => Pending(st', StartEvent(r)) = line'.ts
             /\ line'.kind = "completion"
                   => /\ IntervalOf(st', StartEvent(r))
                            = <<Pending(st, StartEvent(r)), line'.ts>>
                      /\ Pending(st', StartEvent(r)) = None
             /\ line'.kind = "duplicate" => st' = st ]_vars


\* C22: image pull, first occurrence wins. pull_image_start, once set, is
\* never changed or cleared, whatever is read afterwards; while it is unset,
\* a PullImage line at or after the cutoff sets it to its timestamp and no
\* other line sets it; the PullImage interval of the timeline, and of the
\* map returned, always starts at pull_image_start
C22_PullFirstOccurrenceWins ==
    [][ /\ st.pull_image_start # None => st'.pull_image_start = st.pull_image_start
        /\ (st.pull_image_start = None /\ n' = n + 1
               /\ line'.call = {"PullImage"} /\ line'.kind # "discarded")
             => st'.pull_image_start = line'.ts
        /\ (st.pull_image_start = None /\ st'.pull_image_start # None)
             => (n' = n + 1 /\ line'.call = {"PullImage"} /\ line'.kind # "discarded")
        /\ "PullImage" \in DOMAIN st'.ts_map
             => st'.ts_map["PullImage"][1] = st'.pull_image_start
        /\ (pc' = "done" /\ "PullImage" \in DOMAIN returned')
             => returned'["PullImage"][1] = st'.pull_image_start ]_vars

\* a second pull completed: the interval was emitted at the first result
\* line and its end was overwritten by a later one, its start kept
C22_Witness ==
    /\ n = MaxLen
    /\ line.call = {"PullImage"} /\ line.kind = "completion"
    /\ "PullImage" \in DOMAIN st.ts_map
    /\ st.ts_map["PullImage"] = <<CutoffTs, MaxTs>>
    /\ st.pull_image_start = CutoffTs


\* C23: run_sandbox_start is set only while it is unset, only by a line at
\* or after the cutoff that contains "RunPodSandbox" and the deployment id,
\* and to that line's timestamp; once set it is never assigned again, so a
\* RunPodSandbox line without the deployment id never sets it and it is set
\* at most once per scan
C23_SandboxStartOnlyByDeployment ==
    [][ /\ st'.run_sandbox_start # st.run_sandbox_start
             => /\ st.run_sandbox_start = None
                /\ n' = n + 1
                /\ "RunPodSandbox" \in delivered'.message.text
                /\ delivered'.message.dep
                /\ delivered'.timestamp >= cutoff_time
                /\ st'.run_sandbox_start = delivered'.timestamp
        /\ (n' = n + 1 /\ "RunPodSandbox" \in delivered'.message.text
               /\ ~delivered'.message.dep)
             => st'.run_sandbox_start = st.run_sandbox_start ]_vars

\* the first line did not set the start, the second did, and a third, again
\* a RunPodSandbox request of the deployment, left it as it was
C23_Witness ==
    /\ n = 3
    /\ st.run_sandbox_start = cutoff_time + 1
    /\ delivered.timestamp = cutoff_time + 2
    /\ delivered.message.text = {"RunPodSandbox"}
    /\ delivered.message.dep


\* C24: a line never both starts and completes a phase. A step that sets the
\* pending start of an event sets it to the timestamp of the line read and
\* changes nothing else: the timeline, and with it that event's interval,
\* is as it was, and so are the ids and the other pending starts
C24_StartNeverCompletes ==
    [][ \A ev \in CONTAINERD_INFO_EVENTS :
          (Pending(st', ev) # Pending(st, ev) /\ Pending(st', ev) # None)
             => /\ n' = n + 1
                /\ st' = [st EXCEPT ![PendingField(ev)] = line'.ts] ]_vars

\* the result line of the deployment's RunPodSandbox was read while no start
\* was pending: it set the pending start and emitted no interval
C24_Witness ==
    /\ line.kind = "orphan"
    /\ line.evs = {"RunPodSandbox"}
    /\ st.run_sandbox_start = line.ts
    /\ st.sbx_id = EmptyId
    /\ "RunPodSandbox" \notin DOMAIN st.ts_map


\* C25: noise tolerance. A line at or after the cutoff whose message holds
\* none of the keywords "RunPodSandbox", "PullImage", "CreateContainer",
\* "StartContainer" leaves every local of the scan and the timeline as they
\* were; so the locals always equal those of the scan of the journal with
\* such lines taken out, and the timeline returned is that scan's
C25_NoiseTolerance ==
    /\ [][ (n' = n + 1
             /\ delivered'.message.text
                  \cap {"RunPodSandbox", "PullImage", "CreateContainer", "StartContainer"} = {})
           => st' = st ]_vars
    /\ [](st = quiet)
    /\ [](pc = "done" => returned = quiet.ts_map)

\* a line of another operation that carries the user-container's id and
\* "returns successfully" was read while that container's start was pending
C25_Witness ==
    /\ n > Logged
    /\ delivered.message = Msg({"returns successfully"}, FALSE, {"c01"}, NoMatch, NoMatch)
    /\ st.user_container_id = "c01"
    /\ st.user_container_create # None
    /\ "StartContainerUserContainer" \notin DOMAIN st.ts_map


\* C26: single forward pass and termination. Over a finite stream of
\* well-formed lines every iteration takes exactly the next line of the
\* stream, so after n iterations the locals are those of the first n lines
\* taken once each and in order; the scan does not panic, it returns only
\* at the end of the stream, the map returned is that of the whole stream,
\* and it does return
C26_SinglePassTerminates ==
    /\ [][ /\ journal' = journal
           /\ n' # n => (n' = n + 1 /\ delivered' = journal[n + 1])
           /\ pc' = "done" => n' = Len(journal) ]_vars
    /\ [](pc \in {"scan", "done"})
    /\ [](st = ScanOf(journal, cutoff_time, n))
    /\ [](pc = "done" => returned = ScanOf(journal, cutoff_time, Len(journal)).ts_map)
    /\ <>(pc = "done")

\* the scan returned after a stream of MaxStreamLen lines: a stale one, then
\* lines from which it took the sandbox's creation and the pending start of
\* the user-container's
C26_Witness ==
    /\ pc = "done"
    /\ Len(journal) = MaxStreamLen
    /\ n = MaxStreamLen
    /\ DOMAIN returned = {"RunPodSandbox"}
    /\ st.user_container_start = journal[MaxStreamLen].timestamp


\* C27: no state persists across repetitions. A call of the scan begins
\* only while no other call is under way, and begins with every pending
\* start unset, the three ids empty and the timeline empty; during the call
\* the locals are those of a scan, begun from the initial locals, of the
\* lines this call has read, and the map it returns is that scan's: it
\* depends on the deployment, the cutoff and the stream of this call alone
C27_NoStateAcrossRepetitions ==
    /\ [][ (pc' = "spawn" /\ pc # "spawn")
             => /\ pc \in {"idle"}
                /\ run.pc = "idle"
                /\ st' = InitState
                /\ returned' = EmptyMap ]_vars
    /\ [](pc \in {"spawn", "scan", "done"} => st = flt)
    /\ [](pc = "done" => returned = flt.ts_map)

\* the second repetition returned a full timeline after the first had
\* returned one and its row had been written
C27_Witness ==
    /\ run.i = 1
    /\ run.rows = <<0>>
    /\ pc = "done"
    /\ DOMAIN returned = CONTAINERD_INFO_EVENTS


\* C28: while the lines at or after the cutoff have come with non-decreasing
\* timestamps, every interval of the timeline has start <= end and every
\* pending start that is set is no later than the timestamp of the line
\* processed last, hence of every line processed since it was set
C28_MonotonePendingAndIntervals ==
    hw.mono =>
       /\ Ordered(st.ts_map)
       /\ \A ev \in CONTAINERD_INFO_EVENTS :
             Pending(st, ev) # None => Pending(st, ev) <= hw.last

\* a journal in timestamp order: an image pull took time, and its pending
\* start, which stays set, is earlier than the line processed last
C28_Witness ==
    /\ hw.mono
    /\ n = MaxLen
    /\ st.pull_image_start # None
    /\ st.pull_image_start < hw.last
    /\ "PullImage" \in DOMAIN st.ts_map
    /\ st.ts_map["PullImage"][1] < st.ts_map["PullImage"][2]
    /\ st.run_sandbox_start = hw.last


\* C29: run_sandbox_start, once set, is never cleared or changed. Every
\* line read after it that contains "RunPodSandbox" and "returns sandbox
\* id" and from which the sandbox id is captured puts the interval
\* (run_sandbox_start, its timestamp) under "RunPodSandbox", over the one
\* that may be there, and no other line writes that interval; so the
\* interval, also the one returned, runs from the first start line of the
\* deployment to the last such result line
C29_SandboxIntervalOverwritten ==
    /\ [][ /\ st.run_sandbox_start # None
                => st'.run_sandbox_start = st.run_sandbox_start
           /\ (/\ n' = n + 1
               /\ st.run_sandbox_start # None
               /\ {"RunPodSandbox", "returns sandbox id"} \subseteq delivered'.message.text
               /\ delivered'.message.sbx_cap # NoMatch)
                => /\ "RunPodSandbox" \in DOMAIN st'.ts_map
                   /\ st'.ts_map["RunPodSandbox"]
                         = <<st.run_sandbox_start, delivered'.timestamp>>
           /\ Written("RunPodSandbox")
                => /\ n' = n + 1
                   /\ st.run_sandbox_start # None
                   /\ {"RunPodSandbox", "returns sandbox id"} \subseteq delivered'.message.text
                   /\ delivered'.message.sbx_cap # NoMatch ]_vars
    /\ []("RunPodSandbox" \in DOMAIN st.ts_map
             => st.ts_map["RunPodSandbox"][1] = st.run_sandbox_start)
    /\ [](pc = "done" => returned = st.ts_map)

\* the sandbox's start line came first, then a result line, which put the
\* interval and gave the sandbox id, then a creation request of the
\* user-container, then a second result line, which ends the interval
C29_Witness ==
    /\ n = MaxRawLen
    /\ {"RunPodSandbox", "returns sandbox id"} \subseteq delivered.message.text
    /\ delivered.message.sbx_cap = "5b2"
    /\ st.sbx_id = "5b2"
    /\ st.run_sandbox_start = cutoff_time
    /\ "RunPodSandbox" \in DOMAIN st.ts_map
    /\ st.ts_map["RunPodSandbox"] = <<cutoff_time, delivered.timestamp>>
    /\ delivered.timestamp = cutoff_time + MaxRawLen - 1
    /\ st.user_container_start # None


\* C30: for each role, the container id is non-empty exactly when the
\* role's CreateContainer interval is in the timeline. The two are written
\* in the same step: a step that changes the id writes the interval, and a
\* step that writes the interval sets the id to the one captured from the
\* line read; and neither is removed: an id once set stays non-empty, an
\* interval once present stays present
C30_ContainerIdIffCreationInterval ==
    /\ [](\A r \in Roles :
            st[ContainerIdField(r)] # EmptyId <=> CreateEvent(r) \in DOMAIN st.ts_map)
    /\ [][ \A r \in Roles :
             /\ st'[ContainerIdField(r)] # st[ContainerIdField(r)]
                  => Written(CreateEvent(r))
             /\ Written(CreateEvent(r))
                  => /\ n' = n + 1
                     /\ delivered'.message.ctr_cap # NoMatch
                     /\ st'[ContainerIdField(r)] = delivered'.message.ctr_cap
             /\ st[ContainerIdField(r)] # EmptyId => st'[ContainerIdField(r)] # EmptyId
             /\ CreateEvent(r) \in DOMAIN st.ts_map
                  => CreateEvent(r) \in DOMAIN st'.ts_map ]_vars

\* the queue-proxy's creation completed, the user-container's did not: the
\* one has its id and its interval, the other neither
C30_Witness ==
    /\ n = MaxRawLen
    /\ delivered.message.ctr_cap = "c02"
    /\ st.queue_proxy_container_id = "c02"
    /\ "CreateContainerQueueProxy" \in DOMAIN st.ts_map
    /\ st.ts_map["CreateContainerQueueProxy"] = <<delivered.timestamp - 1, delivered.timestamp>>
    /\ st.user_container_id = EmptyId
    /\ "CreateContainerUserContainer" \notin DOMAIN st.ts_map

====
